---- MODULE Spec2Model ----
(***************************************************************************)
(* The isoprene causal pipeline (causal_min_with_tuning.py), in its two    *)
(* variants:                                                               *)
(*   variant 1 = src/causal_min_with_tuning.py      (tuning, no refuter)   *)
(*   variant 2 = src/src/causal_min_with_tuning.py  (standardize, refuter, *)
(*                                                   PNG of the graph)     *)
(* A run of main() is a process whose position is proc[r].pc; the output   *)
(* directory tree is fs, the wall clock is clock, the input CSV is disk,   *)
(* and lib is what the installed estimator and grid search can return.     *)
(* Calls into pandas / scikit-learn / LightGBM / DoWhy / matplotlib either *)
(* raise (the run ends at that step) or return a value drawn from a small  *)
(* set of the values their interface allows.                               *)
(***************************************************************************)
EXTENDS Integers, Sequences, FiniteSets, TLC

VARIABLES proc, fs, clock, disk, lib

vars == <<proc, fs, clock, disk, lib>>

(***************************** bounds **************************************)
\* largest number of data rows of the input CSV
MaxRows == 11
\* the clock runs over ticks 0..MaxClock
MaxClock == 2
\* clock ticks per second of wall time (datetime.now() is finer than %S)
TicksPerSecond == 2
\* the grid search may return any of the first MaxCandidates grid points
MaxCandidates == 2

(************************ program constants ********************************)
\* GridSearchCV(cv=10): the number of folds
CV == 10

Runs == {1, 2}
Variants == {1, 2}

(***************************** helpers *************************************)
RECURSIVE SumUpTo(_, _)
SumUpTo(s, k) == IF k = 0 THEN 0 ELSE s[k] + SumUpTo(s, k - 1)

\* sum(s)
SumSeq(s) == SumUpTo(s, Len(s))

RECURSIVE SelectSeq2(_, _)
\* [c for c in s if c not in excl]
SelectSeq2(s, excl) ==
  IF s = <<>> THEN <<>>
  ELSE IF Head(s) \in excl THEN SelectSeq2(Tail(s), excl)
       ELSE <<Head(s)>> \o SelectSeq2(Tail(s), excl)

Range(s) == {s[i] : i \in 1..Len(s)}

IndexOf(s, x) == CHOOSE i \in 1..Len(s) : s[i] = x

\* zero-padded decimal of width w (w in 2, 4, 6), as %02d / %04d / %06d print
Pad(n, w) ==
  LET t == ToString(n)
      k == w - Len(t)
      zeros == [i \in 0..5 |-> CASE i = 0 -> "" [] i = 1 -> "0" [] i = 2 -> "00"
                                 [] i = 3 -> "000" [] i = 4 -> "0000" [] i = 5 -> "00000"]
  IN IF k <= 0 THEN t ELSE zeros[k] \o t

(************************* the causal graph ********************************)
nodes_label == <<"RH", "Temp", "Radiation", "WS", "WD",
                 "Oxides", "Toluene", "Month", "U", "Isoprene">>
nodes_alias == <<"A", "B", "C", "D", "E", "F", "H", "I", "U", "Y">>

\* a faulty edge list: D -> F becomes F -> D, and F -> D -> H -> F is a cycle
edges_cyclic ==
  << <<"A","Y">>, <<"B","Y">>, <<"C","Y">>, <<"D","Y">>, <<"E","Y">>, <<"F","Y">>,
     <<"H","Y">>, <<"I","Y">>,
     <<"A","H">>, <<"B","A">>, <<"B","D">>, <<"B","E">>, <<"B","H">>, <<"B","F">>,
     <<"C","H">>, <<"C","F">>, <<"F","D">>, <<"D","H">>, <<"H","F">>,
     <<"U","Y">> >>

\* edges: "AY" means A -> Y; e[0] is the source and e[1] the target
edges ==
  << <<"A","Y">>, <<"B","Y">>, <<"C","Y">>, <<"D","Y">>, <<"E","Y">>, <<"F","Y">>,
     <<"H","Y">>, <<"I","Y">>,
     <<"A","H">>, <<"B","A">>, <<"B","D">>, <<"B","E">>, <<"B","H">>, <<"B","F">>,
     <<"C","H">>, <<"C","F">>, <<"D","F">>, <<"D","H">>, <<"H","F">>,
     <<"U","Y">> >>

\* zip(nodes_alias, nodes_label) stops at the shorter list
ZipLen == IF Len(nodes_alias) < Len(nodes_label) THEN Len(nodes_alias) ELSE Len(nodes_label)

\* the GML text, line by line: the header, one node line per zipped pair,
\* one edge line per edge, the closing bracket
user_dag_gml ==
  << [kind |-> "open", a |-> "graph [directed 1", b |-> ""] >>
  \o [i \in 1..ZipLen |-> [kind |-> "node", a |-> nodes_alias[i], b |-> nodes_label[i]]]
  \o [i \in 1..Len(edges) |-> [kind |-> "edge", a |-> edges[i][1], b |-> edges[i][2]]]
  \o << [kind |-> "close", a |-> "]", b |-> ""] >>

NoGml == <<>>

GmlNodes(g) == {i \in 1..Len(g) : g[i].kind = "node"}
GmlEdges(g) == {i \in 1..Len(g) : g[i].kind = "edge"}
GmlNodeIds(g) == {g[i].a : i \in GmlNodes(g)}
GmlEdgeSet(g) == {<<g[i].a, g[i].b>> : i \in GmlEdges(g)}

\* what is left of the nodes N after taking away, again and again, the nodes
\* no remaining edge points to: the nodes on or behind a cycle
RECURSIVE Peel(_, _)
Peel(N, E) ==
  LET live == {e \in E : e[1] \in N /\ e[2] \in N}
      roots == {v \in N : \A e \in live : e[2] # v}
  IN IF roots = {} THEN N ELSE Peel(N \ roots, live)

Acyclic(g) == Peel(GmlNodeIds(g), GmlEdgeSet(g)) = {}

(************************** command line **********************************)
Absent == "<absent>"
DefaultOutdir == "./outputs"

\* what the shell passes: each option's value, or Absent; --standardize is a
\* switch without a value
Invocations(csvs, treatments, outcomes, outdirs, switches) ==
  [csv : csvs, treatment : treatments, outcome : outcomes, outdir : outdirs,
   standardize : switches]

NoArgs == [csv |-> Absent, treatment |-> Absent, outcome |-> Absent,
           outdir |-> Absent, standardize |-> FALSE]

\* a faulty parser: --treatment is not required
parse_args_optional(variant, argv) ==
  IF argv.csv = Absent \/ argv.outcome = Absent
    THEN [ok |-> FALSE, error |-> "the following arguments are required", ns |-> NoArgs]
  ELSE IF variant = 1 /\ argv.standardize
    THEN [ok |-> FALSE, error |-> "unrecognized arguments", ns |-> NoArgs]
  ELSE [ok |-> TRUE, error |-> "",
        ns |-> [csv |-> argv.csv, treatment |-> argv.treatment, outcome |-> argv.outcome,
                outdir |-> IF argv.outdir = Absent THEN DefaultOutdir ELSE argv.outdir,
                standardize |-> variant = 2 /\ argv.standardize]]

\* parser.parse_args(): the namespace, or the error argparse exits on
parse_args(variant, argv) ==
  IF argv.csv = Absent \/ argv.treatment = Absent \/ argv.outcome = Absent
    THEN [ok |-> FALSE, error |-> "the following arguments are required", ns |-> NoArgs]
  ELSE IF variant = 1 /\ argv.standardize
    THEN [ok |-> FALSE, error |-> "unrecognized arguments", ns |-> NoArgs]
  ELSE [ok |-> TRUE, error |-> "",
        ns |-> [csv |-> argv.csv, treatment |-> argv.treatment, outcome |-> argv.outcome,
                outdir |-> IF argv.outdir = Absent THEN DefaultOutdir ELSE argv.outdir,
                standardize |-> variant = 2 /\ argv.standardize]]

(***************************** data frames *********************************)
\* a number x is held as num / sqrt(den2); a value read from the CSV is x / 1
Raw(x) == [num |-> x, den2 |-> 1]

NoDf == [columns |-> <<>>, index |-> <<>>, data |-> <<>>]
NoSeries == [name |-> "", index |-> <<>>, values |-> <<>>]

\* the CSV files the run may be pointed at
Layouts ==
  << <<"RH", "Temp", "Toluene", "Isoprene">>,
     <<"Isoprene", "Site", "Toluene", "RH">>,
     <<"RH", "Temp", "Isoprene">> >>

\* column 2 is constant, the others vary from row to row
CellValue(i, j) == IF j = 2 THEN 5 ELSE (i * j + j) % 4

CsvFile(n, layout) ==
  [header |-> Layouts[layout],
   rows |-> [i \in 1..n |-> [j \in 1..Len(Layouts[layout]) |-> CellValue(i, j)]]]

RowCounts == {0, 1, CV - 1} \cup (CV..MaxRows)

\* pd.read_csv: the header row names the columns, the index is 0..n-1
read_csv(csv) ==
  [columns |-> csv.header,
   index |-> [i \in 1..Len(csv.rows) |-> i - 1],
   data |-> [i \in 1..Len(csv.rows) |->
               [j \in 1..Len(csv.header) |-> Raw(csv.rows[i][j])]]]

\* a faulty reset: the index restarts at 1
reset_index_from_one(df) == [df EXCEPT !.index = [i \in 1..Len(df.data) |-> i]]

\* DataFrame.reset_index(drop=True): a fresh 0..n-1 index, the rows untouched
reset_index(df) == [df EXCEPT !.index = [i \in 1..Len(df.data) |-> i - 1]]

ColumnValues(df, c) ==
  [i \in 1..Len(df.data) |-> df.data[i][IndexOf(df.columns, c)]]

\* df[c]
Column(df, c) == [name |-> c, index |-> df.index, values |-> ColumnValues(df, c)]

\* df[cols]
SelectCols(df, cols) ==
  [columns |-> cols, index |-> df.index,
   data |-> [i \in 1..Len(df.data) |->
               [j \in 1..Len(cols) |-> df.data[i][IndexOf(df.columns, cols[j])]]]]

\* StandardScaler on one column xs of raw values: (x - mean) / std with the
\* population std, and a scale of 1 where the std is 0
ScaleColumn(xs) ==
  LET n == Len(xs)
      S == SumSeq([i \in 1..n |-> xs[i].num])
      Q == SumSeq([i \in 1..n |-> xs[i].num * xs[i].num])
      v == n * Q - S * S
  IN [i \in 1..n |-> [num |-> n * xs[i].num - S, den2 |-> IF v = 0 THEN n * n ELSE v]]

\* a faulty standardization: the outcome column (Isoprene) is left as read
standardize_skip_outcome(df) ==
  [df EXCEPT !.data =
     [i \in 1..Len(df.data) |->
        [j \in 1..Len(df.columns) |->
           IF df.columns[j] = "Isoprene" THEN df.data[i][j]
           ELSE ScaleColumn(ColumnValues(df, df.columns[j]))[i]]]]

\* df[df.columns] = scaler.fit_transform(df[df.columns])
standardize(df) ==
  [df EXCEPT !.data =
     [i \in 1..Len(df.data) |->
        [j \in 1..Len(df.columns) |->
           ScaleColumn(ColumnValues(df, df.columns[j]))[i]]]]

\* a faulty selection: the treatment column stays among the covariates
covariates_keep_treatment(df, treatment, outcome) == SelectSeq2(df.columns, {outcome})

\* [c for c in df.columns if c not in [args.treatment, args.outcome]]
covariates_of(df, treatment, outcome) == SelectSeq2(df.columns, {treatment, outcome})

(****************************** tuning *************************************)
\* param_grid of each variant, in the order ParameterGrid enumerates it
\* (keys sorted, the last key fastest)
ParamGrid(variant) ==
  IF variant = 1
  THEN LET lr == <<"0.05", "0.1">>
           md == <<3, 6, 10>>
           ne == <<50, 100, 200>>
       IN [k \in 1..18 |->
             [learning_rate |-> lr[((k - 1) \div 9) + 1],
              max_depth |-> md[(((k - 1) \div 3) % 3) + 1],
              n_estimators |-> ne[((k - 1) % 3) + 1]]]
  ELSE LET md == <<3, 10, 20, 100>>
           ne == <<10, 50, 100>>
       IN [k \in 1..12 |->
             [learning_rate |-> "default",
              max_depth |-> md[((k - 1) \div 3) + 1],
              n_estimators |-> ne[((k - 1) % 3) + 1]]]

NoParams == [learning_rate |-> "", max_depth |-> 0, n_estimators |-> 0]

\* the grid points model.best_params_ may be
BestParams(variant) ==
  LET g == ParamGrid(variant)
      m == IF lib.candidates < Len(g) THEN lib.candidates ELSE Len(g)
  IN {g[k] : k \in 1..m}

\* KFold(n_splits=cv) raises when there are fewer samples than folds
CanSplit(n) == n >= CV

(************************* floats and their text ***************************)
\* a Python float: finite (e7 units of 1e-7), nan or inf; "none" is None
Finite(e7) == [kind |-> "finite", e7 |-> e7]
NaN == [kind |-> "nan", e7 |-> 0]
PosInf == [kind |-> "inf", e7 |-> 0]
None == [kind |-> "none", e7 |-> 0]

IsFinite(x) == x.kind = "finite"

\* what estimate.value may be: None when nothing was estimated, else a float.
\* The finite values avoid exact ties of the seventh decimal.
EstimateValues == {None, NaN, PosInf, Finite(12345678), Finite(-4)}

\* float(x): TypeError on None, the value otherwise
FloatRaises(x) == x.kind = "none"

\* f"{x:.6f}": sign, integer part, point, six digits; nan and inf have no digits
Format6(x) ==
  IF x.kind = "finite"
  THEN LET a == IF x.e7 < 0 THEN 0 - x.e7 ELSE x.e7
           q == (a + 5) \div 10
           frac == Pad(q % 1000000, 6)
       IN [text |-> (IF x.e7 < 0 THEN "-" ELSE "") \o ToString(q \div 1000000) \o "." \o frac,
           decimals |-> Len(frac)]
  ELSE [text |-> x.kind, decimals |-> 0]

(****************************** time ***************************************)
EpochStart == [year |-> 2025, month |-> 1, day |-> 1, second_of_day |-> 3599]

\* datetime.now() at clock tick t
Now(t) ==
  LET s == EpochStart.second_of_day + (t \div TicksPerSecond)
  IN [year |-> EpochStart.year, month |-> EpochStart.month, day |-> EpochStart.day,
      hour |-> s \div 3600, minute |-> (s \div 60) % 60, second |-> s % 60,
      tick |-> t % TicksPerSecond]

\* strftime("%Y%m%d_%H%M%S"): nothing finer than the second is printed
strftime(dt) ==
  Pad(dt.year, 4) \o Pad(dt.month, 2) \o Pad(dt.day, 2) \o "_"
  \o Pad(dt.hour, 2) \o Pad(dt.minute, 2) \o Pad(dt.second, 2)

(**************************** file names ***********************************)
\* os.path.join(a, b) for a directory name a without a trailing separator
path_join(a, b) == a \o "/" \o b

\* a faulty report name: no timestamp in it
txt_name_fixed(ts) == "causal_results.txt"

txt_name(ts) == "causal_results_" \o ts \o ".txt"

\* a faulty table name: no timestamp in it
ite_name_fixed(ts) == "ite.csv"

ite_name(ts) == "ite_" \o ts \o ".csv"
graph_name(ts) == "causal_graph_" \o ts \o ".png"

(************************** the run of main() ******************************)
\* a faulty order: the report is written before the estimate (first variant)
\* or before the refutation (second variant)
StepsSwapped(variant, std) ==
  IF variant = 1
  THEN <<"parse", "makedirs", "load", "dag", "covariates", "tune_y", "tune_t",
         "model", "identify", "stamp", "write_txt", "estimate", "extract", "write_csv">>
  ELSE <<"parse", "makedirs", "load">> \o (IF std THEN <<"standardize">> ELSE <<>>)
       \o <<"dag", "covariates", "tune_y", "tune_t", "model", "identify",
            "estimate", "extract", "stamp", "write_txt", "refute", "write_csv", "plot">>

\* the steps of main() in program order; the second variant standardizes
\* only under --standardize
Steps(variant, std) ==
  IF variant = 1
  THEN <<"parse", "makedirs", "load", "dag", "covariates", "tune_y", "tune_t",
         "model", "identify", "estimate", "extract", "stamp", "write_txt", "write_csv">>
  ELSE <<"parse", "makedirs", "load">> \o (IF std THEN <<"standardize">> ELSE <<>>)
       \o <<"dag", "covariates", "tune_y", "tune_t", "model", "identify",
            "estimate", "extract", "refute", "stamp", "write_txt", "write_csv", "plot">>

\* the step control reaches when `step` returns
After(p, step) ==
  LET ss == Steps(p.variant, p.args.standardize)
      i == IndexOf(ss, step)
  IN IF i = Len(ss) THEN "done" ELSE ss[i + 1]

NoEstimate == [value |-> None, cate_estimates |-> <<>>]

NewProc(variant, argv) ==
  [pc |-> "parse", variant |-> variant, argv |-> argv, args |-> NoArgs,
   df |-> NoDf, gml_string |-> NoGml, covariates |-> <<>>,
   best_y |-> NoParams, best_t |-> NoParams, calls |-> <<>>,
   estimand |-> "", estimate |-> NoEstimate, ate_value |-> None,
   ite_series |-> NoSeries, refutation |-> "", ts |-> "",
   stdout |-> <<>>, wrote |-> <<>>, trace |-> <<>>, failed_at |-> "", exit_code |-> -1]

\* a run that was never started
Idle == [NewProc(1, NoArgs) EXCEPT !.pc = "idle"]

Say(what, text) == [what |-> what, text |-> text]

\* os.path.join(args.outdir, f"causal_graph_{ts}.png") and its two siblings
txt_path(p) == path_join(p.args.outdir, txt_name(p.ts))
ite_path(p) == path_join(p.args.outdir, ite_name(p.ts))
graph_path(p) == path_join(p.args.outdir, graph_name(p.ts))

\* what a step prints before the call of it that may raise
PrintsBefore(p, step) ==
  CASE step = "standardize" -> <<Say("[Standardizing] Using StandardScaler ...", "")>>
    [] step = "tune_y" -> <<Say("[Tuning] Outcome model (Y)...", "")>>
    [] step = "tune_t" -> <<Say("[Tuning] Treatment model (T)...", "")>>
    [] step = "refute" -> <<Say("[Refutation] Running data_subset_refuter ...", "")>>
    [] step = "plot" -> <<Say("[Saving] Causal graph to", graph_path(p))>>
    [] OTHER -> <<>>

\* a faulty failure path: the exception is swallowed and main() goes on
RaiseCaught(r, step) ==
  proc' = [proc EXCEPT ![r] = [@ EXCEPT !.pc = After(proc[r], step),
                                        !.trace = Append(@, step),
                                        !.stdout = @ \o PrintsBefore(proc[r], step),
                                        !.failed_at = step]]

\* an exception leaves main(): nothing catches it, the interpreter exits 1
Raise(r, step) ==
  proc' = [proc EXCEPT ![r] = [@ EXCEPT !.pc = "failed",
                                        !.trace = Append(@, step),
                                        !.stdout = @ \o PrintsBefore(proc[r], step),
                                        !.failed_at = step,
                                        !.exit_code = 1]]

\* args = parser.parse_args(): argparse exits 2 on a usage error
ParseArgs(r) ==
  /\ proc[r].pc = "parse"
  /\ LET res == parse_args(proc[r].variant, proc[r].argv)
     IN IF res.ok
        THEN proc' = [proc EXCEPT ![r] = [@ EXCEPT !.args = res.ns,
                                                   !.trace = Append(@, "parse"),
                                                   !.pc = "makedirs"]]
        ELSE proc' = [proc EXCEPT ![r] = [@ EXCEPT !.pc = "failed",
                                                   !.trace = Append(@, "parse"),
                                                   !.failed_at = "parse",
                                                   !.exit_code = 2,
                                                   !.stdout = Append(@, Say("usage", res.error))]]
  /\ UNCHANGED <<fs, clock, disk, lib>>

\* os.makedirs(args.outdir, exist_ok=True)
MakeDirs(r) ==
  /\ proc[r].pc = "makedirs"
  /\ \/ /\ Raise(r, "makedirs")
        /\ UNCHANGED fs
     \/ /\ fs' = [fs EXCEPT !.dirs = @ \cup {proc[r].args.outdir}]
        /\ proc' = [proc EXCEPT ![r] = [@ EXCEPT !.trace = Append(@, "makedirs"),
                                                 !.pc = After(proc[r], "makedirs")]]
  /\ UNCHANGED <<clock, disk, lib>>

\* df = pd.read_csv(args.csv).reset_index(drop=True)
Load(r) ==
  /\ proc[r].pc = "load"
  /\ \/ Raise(r, "load")
     \/ /\ proc[r].args.csv \in DOMAIN disk
        /\ proc' = [proc EXCEPT ![r] =
                      [@ EXCEPT !.df = reset_index(read_csv(disk[proc[r].args.csv])),
                                !.trace = Append(@, "load"),
                                !.pc = After(proc[r], "load")]]
  /\ UNCHANGED <<fs, clock, disk, lib>>

\* if args.standardize: df[df.columns] = StandardScaler().fit_transform(...)
\* (StandardScaler refuses an array without samples)
Standardize(r) ==
  /\ proc[r].pc = "standardize"
  /\ \/ Raise(r, "standardize")
     \/ /\ Len(proc[r].df.data) >= 1
        /\ proc' = [proc EXCEPT ![r] =
                      [@ EXCEPT !.df = standardize(proc[r].df),
                                !.stdout = @ \o PrintsBefore(proc[r], "standardize"),
                                !.trace = Append(@, "standardize"),
                                !.pc = After(proc[r], "standardize")]]
  /\ UNCHANGED <<fs, clock, disk, lib>>

\* gml_string = user_dag_gml()
BuildDag(r) ==
  /\ proc[r].pc = "dag"
  /\ proc' = [proc EXCEPT ![r] = [@ EXCEPT !.gml_string = user_dag_gml,
                                           !.trace = Append(@, "dag"),
                                           !.pc = After(proc[r], "dag")]]
  /\ UNCHANGED <<fs, clock, disk, lib>>

\* covariates = [c for c in df.columns if c not in [args.treatment, args.outcome]]
Covariates(r) ==
  /\ proc[r].pc = "covariates"
  /\ proc' = [proc EXCEPT ![r] =
                [@ EXCEPT !.covariates = covariates_of(proc[r].df, proc[r].args.treatment,
                                                       proc[r].args.outcome),
                          !.trace = Append(@, "covariates"),
                          !.pc = After(proc[r], "covariates")]]
  /\ UNCHANGED <<fs, clock, disk, lib>>

\* one call of tune_lgbm(df[covariates], df[target]): df[target] raises
\* KeyError for a missing column, the 10-fold split needs 10 rows, and the
\* fit may raise; otherwise best_params_ is a point of the grid
Tune(r, step, target, field, report) ==
  /\ proc[r].pc = step
  /\ \/ Raise(r, step)
     \/ /\ target \in Range(proc[r].df.columns)
        /\ CanSplit(Len(proc[r].df.data))
        /\ \E best \in BestParams(proc[r].variant) :
             proc' = [proc EXCEPT ![r] =
                        [@ EXCEPT ![field] = best,
                                  !.calls = Append(@, [fn |-> "tune_lgbm",
                                                       X |-> SelectCols(proc[r].df, proc[r].covariates),
                                                       y |-> Column(proc[r].df, target)]),
                                  !.stdout = @ \o PrintsBefore(proc[r], step) \o <<Say(report, "")>>,
                                  !.trace = Append(@, step),
                                  !.pc = After(proc[r], step)]]
  /\ UNCHANGED <<fs, clock, disk, lib>>

\* best_y = tune_lgbm(df[covariates], df[args.outcome])
TuneY(r) ==
  Tune(r, "tune_y", proc[r].args.outcome, "best_y", "Best params Y:")

\* best_t = tune_lgbm(df[covariates], df[args.treatment])
TuneT(r) ==
  Tune(r, "tune_t", proc[r].args.treatment, "best_t", "Best params T:")

\* model = CausalModel(data=df, treatment=..., outcome=..., graph=gml_string)
BuildModel(r) ==
  /\ proc[r].pc = "model"
  /\ \/ Raise(r, "model")
     \/ proc' = [proc EXCEPT ![r] =
                   [@ EXCEPT !.calls = Append(@, [fn |-> "CausalModel", X |-> proc[r].df,
                                                  y |-> NoSeries]),
                             !.trace = Append(@, "model"),
                             !.pc = After(proc[r], "model")]]
  /\ UNCHANGED <<fs, clock, disk, lib>>

\* estimand = model.identify_effect()
Identify(r) ==
  /\ proc[r].pc = "identify"
  /\ \/ Raise(r, "identify")
     \/ proc' = [proc EXCEPT ![r] = [@ EXCEPT !.estimand = "Estimand type: nonparametric-ate",
                                              !.trace = Append(@, "identify"),
                                              !.pc = After(proc[r], "identify")]]
  /\ UNCHANGED <<fs, clock, disk, lib>>

\* the per-row effects the estimator may hand back for n rows: one per row
\* in row order, or an array longer or shorter by lib.lengths
CateArrays(n) ==
  {[i \in 1..m |-> "cate[" \o ToString(i - 1) \o "]"] :
     m \in {n + d : d \in {e \in lib.lengths : n + e >= 0}}}

\* estimate = model.estimate_effect(..., "backdoor.econml.dml.CausalForestDML", ...)
Estimate(r) ==
  /\ proc[r].pc = "estimate"
  /\ \/ Raise(r, "estimate")
     \/ \E v \in lib.values, c \in CateArrays(Len(proc[r].df.data)) :
          proc' = [proc EXCEPT ![r] =
                     [@ EXCEPT !.estimate = [value |-> v, cate_estimates |-> c],
                               !.calls = Append(@, [fn |-> "estimate_effect", X |-> proc[r].df,
                                                    y |-> NoSeries]),
                               !.trace = Append(@, "estimate"),
                               !.pc = After(proc[r], "estimate")]]
  /\ UNCHANGED <<fs, clock, disk, lib>>

\* pd.Series(data, index=index, name=name): ValueError unless the lengths agree
Series(data, index, name) ==
  IF Len(data) # Len(index) THEN [ok |-> FALSE, s |-> NoSeries]
  ELSE [ok |-> TRUE, s |-> [name |-> name, index |-> index, values |-> data]]

\* ate_value = float(estimate.value); ite_series = pd.Series(...);
\* the second variant prints the ATE here
Extract(r) ==
  /\ proc[r].pc = "extract"
  /\ LET p == proc[r]
         ser == Series(p.estimate.cate_estimates, p.df.index, "ITE")
     IN IF FloatRaises(p.estimate.value) \/ ~ser.ok
        THEN Raise(r, "extract")
        ELSE proc' = [proc EXCEPT ![r] =
                        [@ EXCEPT !.ate_value = p.estimate.value,
                                  !.ite_series = ser.s,
                                  !.stdout = IF p.variant = 2
                                             THEN Append(@, Say("ATE =", Format6(p.estimate.value).text))
                                             ELSE @,
                                  !.trace = Append(@, "extract"),
                                  !.pc = After(p, "extract")]]
  /\ UNCHANGED <<fs, clock, disk, lib>>

\* refutation = model.refute_estimate(estimand, estimate, "data_subset_refuter")
Refute(r) ==
  /\ proc[r].pc = "refute"
  /\ \/ Raise(r, "refute")
     \/ proc' = [proc EXCEPT ![r] =
                   [@ EXCEPT !.refutation = "Refute: Use a subset of data",
                             !.calls = Append(@, [fn |-> "refute_estimate", X |-> proc[r].df,
                                                  y |-> NoSeries]),
                             !.stdout = @ \o PrintsBefore(proc[r], "refute")
                                          \o <<Say("refutation", "Refute: Use a subset of data")>>,
                             !.trace = Append(@, "refute"),
                             !.pc = After(proc[r], "refute")]]
  /\ UNCHANGED <<fs, clock, disk, lib>>

\* ts = datetime.now().strftime("%Y%m%d_%H%M%S"); the clock never runs back
Stamp(r) ==
  /\ proc[r].pc = "stamp"
  /\ \E t \in clock..MaxClock :
       /\ clock' = t
       /\ proc' = [proc EXCEPT ![r] = [@ EXCEPT !.ts = strftime(Now(t)),
                                                !.trace = Append(@, "stamp"),
                                                !.pc = After(proc[r], "stamp")]]
  /\ UNCHANGED <<fs, disk, lib>>

(**************************** the outputs **********************************)
\* str(best_params_): the keys in the grid's (sorted) order
ParamStr(p) ==
  "{" \o (IF p.learning_rate = "default" THEN ""
          ELSE "'learning_rate': " \o p.learning_rate \o ", ")
      \o "'max_depth': " \o ToString(p.max_depth)
      \o ", 'n_estimators': " \o ToString(p.n_estimators) \o "}"

\* the f.write calls of the report, one chunk each
ReportChunks(p) ==
  << <<"===== Estimand =====\n">>,
     <<p.estimand \o "\n\n">>,
     <<"===== ATE =====\n">>,
     <<Format6(p.ate_value).text \o "\n\n">>,
     <<"===== Best params =====\n">>,
     <<"Y: " \o ParamStr(p.best_y) \o "\n">> >>
  \o (IF p.variant = 1
      THEN << <<"T: " \o ParamStr(p.best_t) \o "\n">> >>
      ELSE << <<"T: " \o ParamStr(p.best_t) \o "\n\n">>,
              <<"===== Refutation Results (data_subset_refuter) =====\n">>,
              <<p.refutation \o "\n">> >>)

\* Series.to_csv(path): a header row (the index is unnamed), then one row
\* per element: its index label and its value
to_csv(ser) ==
  << <<"", ser.name>> >>
  \o [i \in 1..Len(ser.values) |-> <<ToString(ser.index[i]), ser.values[i]>>]

\* nx.parse_gml(gml_string) and the drawing of it: the nodes carry their
\* labels, each edge joins the labels of its two ids
GraphPicture(g) ==
  LET label(id) == g[CHOOSE i \in GmlNodes(g) : g[i].a = id].b
      ns == SelectSeq(g, LAMBDA l : l.kind = "node")
      es == SelectSeq(g, LAMBDA l : l.kind = "edge")
  IN << <<"PNG">>, <<"Causal DAG">> >>
     \o [i \in 1..Len(ns) |-> <<ns[i].b>>]
     \o [i \in 1..Len(es) |-> <<label(es[i].a), label(es[i].b)>>]

\* open(path, "w") / to_csv / savefig: the file is created or replaced
WriteFile(path, kind, lines) ==
  fs' = [fs EXCEPT !.files = (path :> [kind |-> kind, lines |-> lines]) @@ @]

\* with open(txt_path, "w") as f: f.write(...): open may raise, and so may
\* any write after the file was created or emptied
WriteTxt(r) ==
  /\ proc[r].pc = "write_txt"
  /\ \/ /\ Raise(r, "write_txt")
        /\ UNCHANGED fs
     \/ \E k \in 0..(Len(ReportChunks(proc[r])) - 1) :
          /\ WriteFile(txt_path(proc[r]), "txt", SubSeq(ReportChunks(proc[r]), 1, k))
          /\ proc' = [proc EXCEPT ![r] = [@ EXCEPT !.pc = "failed",
                                                   !.wrote = Append(@, txt_path(proc[r])),
                                                   !.trace = Append(@, "write_txt"),
                                                   !.failed_at = "write_txt",
                                                   !.exit_code = 1]]
     \/ /\ WriteFile(txt_path(proc[r]), "txt", ReportChunks(proc[r]))
        /\ proc' = [proc EXCEPT ![r] = [@ EXCEPT !.wrote = Append(@, txt_path(proc[r])),
                                                 !.trace = Append(@, "write_txt"),
                                                 !.pc = After(proc[r], "write_txt")]]
  /\ UNCHANGED <<clock, disk, lib>>

\* what follows to_csv in each variant: the first prints the ATE and the
\* directory, the second the absolute paths
PrintsAfterCsv(p) ==
  IF p.variant = 1
  THEN <<Say("ATE =", Format6(p.ate_value).text), Say("Results saved to", p.args.outdir)>>
  ELSE <<Say("[Saved]", txt_path(p)), Say("[Saved]", ite_path(p)),
         Say("Results saved to", p.args.outdir)>>

\* ite_series.to_csv(ite_path), and the prints after it
WriteCsv(r) ==
  /\ proc[r].pc = "write_csv"
  /\ \/ /\ Raise(r, "write_csv")
        /\ UNCHANGED fs
     \/ /\ WriteFile(ite_path(proc[r]), "csv", to_csv(proc[r].ite_series))
        /\ proc' = [proc EXCEPT ![r] =
                      [@ EXCEPT !.wrote = Append(@, ite_path(proc[r])),
                                !.stdout = @ \o PrintsAfterCsv(proc[r]),
                                !.trace = Append(@, "write_csv"),
                                !.pc = After(proc[r], "write_csv"),
                                !.exit_code = IF After(proc[r], "write_csv") = "done" THEN 0 ELSE @]]
  /\ UNCHANGED <<clock, disk, lib>>

\* G = nx.parse_gml(gml_string); ...; plt.savefig(graph_path, format='PNG')
Plot(r) ==
  /\ proc[r].pc = "plot"
  /\ \/ /\ Raise(r, "plot")
        /\ UNCHANGED fs
     \/ /\ WriteFile(graph_path(proc[r]), "png", GraphPicture(proc[r].gml_string))
        /\ proc' = [proc EXCEPT ![r] =
                      [@ EXCEPT !.wrote = Append(@, graph_path(proc[r])),
                                !.stdout = @ \o PrintsBefore(proc[r], "plot")
                                             \o <<Say("Results saved to", proc[r].args.outdir)>>,
                                !.trace = Append(@, "plot"),
                                !.pc = After(proc[r], "plot"),
                                !.exit_code = IF After(proc[r], "plot") = "done" THEN 0 ELSE @]]
  /\ UNCHANGED <<clock, disk, lib>>

(*************************** specifications ********************************)
CsvArg == "data.csv"
MissingCsv == "nofile.csv"

NoFiles == [p \in {} |-> 0]

EmptyWorld ==
  /\ fs = [dirs |-> {}, files |-> NoFiles]
  /\ clock = 0

\* one run, started with any command line on any of the CSV files
Init ==
  /\ EmptyWorld
  /\ \E n \in RowCounts, layout \in 1..Len(Layouts) :
       disk = (CsvArg :> CsvFile(n, layout))
  /\ lib = [values |-> EstimateValues, lengths |-> {-1, 0, 1}, candidates |-> MaxCandidates]
  /\ \E v \in Variants,
        argv \in Invocations({Absent, CsvArg, MissingCsv}, {Absent, "Toluene", "Temp"},
                             {Absent, "Isoprene"}, {Absent, "out"}, BOOLEAN) :
       proc = [r \in Runs |-> IF r = 1 THEN NewProc(v, argv) ELSE Idle]

\* two runs on one CSV file with an estimator that returns one finite value,
\* each of either variant, in either directory, with or without --standardize
InitPair ==
  /\ EmptyWorld
  /\ disk = (CsvArg :> CsvFile(CV, 1))
  /\ lib = [values |-> {Finite(12345678)}, lengths |-> {0}, candidates |-> 1]
  /\ \E v \in [Runs -> Variants],
        a \in [Runs -> Invocations({CsvArg}, {"Toluene"}, {"Isoprene"},
                                   {Absent, "out"}, BOOLEAN)] :
       proc = [r \in Runs |-> NewProc(v[r], a[r])]

Next ==
  \E r \in Runs :
     \/ ParseArgs(r)
     \/ MakeDirs(r)
     \/ Load(r)
     \/ Standardize(r)
     \/ BuildDag(r)
     \/ Covariates(r)
     \/ TuneY(r)
     \/ TuneT(r)
     \/ BuildModel(r)
     \/ Identify(r)
     \/ Estimate(r)
     \/ Extract(r)
     \/ Refute(r)
     \/ Stamp(r)
     \/ WriteTxt(r)
     \/ WriteCsv(r)
     \/ Plot(r)

Spec == Init /\ [][Next]_vars

SpecPair == InitPair /\ [][Next]_vars

(****************************** claims *************************************)
Ran(p, step) == step \in Range(p.trace)

\* the step ran and returned
Completed(p, step) == Ran(p, step) /\ p.failed_at # step

IsPrefix(a, b) == Len(a) <= Len(b) /\ \A i \in 1..Len(a) : a[i] = b[i]

InputRows(p) == disk[p.args.csv].rows
InputHeader(p) == disk[p.args.csv].header

\* C1: the ITE CSV of a successful run has one data row per input row, indexed
\* 0..n-1 in input order, under the header of an unnamed index and one value
\* column ITE; the frame kept its n rows from load to write.
C1_IteRowPerInputRow ==
  \A r \in Runs :
     proc[r].pc = "done" =>
       LET p == proc[r]
           n == Len(InputRows(p))
           path == p.args.outdir \o "/ite_" \o p.ts \o ".csv"
       IN /\ path \in DOMAIN fs.files
          /\ fs.files[path].kind = "csv"
          /\ Len(fs.files[path].lines) = n + 1
          /\ fs.files[path].lines[1] = <<"", "ITE">>
          /\ \A k \in 1..n :
               fs.files[path].lines[k + 1] =
                 <<ToString(k - 1), "cate[" \o ToString(k - 1) \o "]">>
          /\ Len(p.df.data) = n
          /\ p.df.index = [k \in 1..n |-> k - 1]

C1_Witness ==
  \E r \in Runs :
     /\ proc[r].pc = "done"
     /\ Len(InputRows(proc[r])) = MaxRows
     /\ proc[r].args.standardize
     /\ Len(fs.files[ite_path(proc[r])].lines) = MaxRows + 1

TextSize(lines) == SumSeq([i \in 1..Len(lines) |-> SumSeq([j \in 1..Len(lines[i]) |-> Len(lines[i][j])])])

\* C2: a successful run has created, in the output directory, a non-empty
\* causal_results_<ts>.txt and ite_<ts>.csv, and in the second variant a
\* causal_graph_<ts>.png, all with the one 15-character stamp of the run; the
\* first variant wrote exactly these two files, the second exactly these three.
C2_OutputFiles ==
  \A r \in Runs :
     proc[r].pc = "done" =>
       LET p == proc[r]
           txt == p.args.outdir \o "/causal_results_" \o p.ts \o ".txt"
           ite == p.args.outdir \o "/ite_" \o p.ts \o ".csv"
           png == p.args.outdir \o "/causal_graph_" \o p.ts \o ".png"
       IN /\ Len(p.ts) = 15
          /\ \E t \in 0..MaxClock : p.ts = strftime(Now(t))
          /\ p.args.outdir \in fs.dirs
          /\ p.wrote = IF p.variant = 1 THEN <<txt, ite>> ELSE <<txt, ite, png>>
          /\ \A f \in Range(p.wrote) :
               f \in DOMAIN fs.files /\ TextSize(fs.files[f].lines) > 0
          /\ fs.files[txt].kind = "txt" /\ fs.files[ite].kind = "csv"
          /\ p.variant = 2 => fs.files[png].kind = "png"
          /\ p.variant = 1 => \A f \in DOMAIN fs.files : fs.files[f].kind # "png"
          /\ Cardinality(DOMAIN fs.files) = IF p.variant = 1 THEN 2 ELSE 3

C2_Witness ==
  \E r \in Runs :
     /\ proc[r].pc = "done"
     /\ proc[r].variant = 2
     /\ proc[r].ts = "20250101_010000"
     /\ Cardinality(DOMAIN fs.files) = 3

PipelineSteps == {"load", "standardize", "tune_y", "tune_t", "model", "identify",
                  "estimate", "extract", "refute"}

\* C3: a step that fails ends the run there: the run is terminated, the failed
\* step is the last one it ran, and when that step is one before the writes
\* the run has written no file and the file system holds nothing but the
\* output directory.
C3_FailureTerminates ==
  \A r \in Runs :
     proc[r].failed_at # "" =>
       LET p == proc[r]
       IN /\ p.pc = "failed"
          /\ p.exit_code \in {1, 2}
          /\ p.trace # <<>> /\ p.trace[Len(p.trace)] = p.failed_at
          /\ Cardinality({i \in 1..Len(p.trace) : p.trace[i] = p.failed_at}) = 1
          /\ p.failed_at \in PipelineSteps =>
               /\ p.wrote = <<>>
               /\ DOMAIN fs.files = {}
               /\ fs.dirs = {p.args.outdir}

C3_Witness ==
  \E r \in Runs :
     /\ proc[r].failed_at = "refute"
     /\ \E i \in 1..Len(proc[r].stdout) : proc[r].stdout[i].what = "ATE ="
     /\ DOMAIN fs.files = {}
     /\ fs.dirs = {"./outputs"}

ClaimedOrder(variant) ==
  IF variant = 1
  THEN <<"load", "dag", "tune_y", "tune_t", "estimate", "write_txt", "write_csv">>
  ELSE <<"load", "dag", "tune_y", "tune_t", "estimate", "refute",
         "write_txt", "write_csv", "plot">>

\* C4: the steps of a run happen in the order load, define graph, tune
\* outcome model, tune treatment model, estimate, refute (second variant),
\* write report, write ITE CSV, plot (second variant), each at most once; no
\* file is written before the estimate (and the refutation) is there, and the
\* PNG exists only after the report and the ITE CSV of the same stamp.
C4_StepOrder ==
  \A r \in Runs :
     LET p == proc[r]
         order == ClaimedOrder(p.variant)
         done == SelectSeq(p.trace, LAMBDA s : s \in Range(order))
     IN /\ IsPrefix(done, order)
        /\ p.wrote # <<>> =>
             /\ Ran(p, "estimate") /\ p.estimate # NoEstimate
             /\ p.variant = 2 => Ran(p, "refute") /\ p.refutation # ""
        /\ (p.args.outdir \o "/causal_graph_" \o p.ts \o ".png") \in DOMAIN fs.files =>
             /\ Len(p.wrote) = 3
             /\ p.wrote[1] = p.args.outdir \o "/causal_results_" \o p.ts \o ".txt"
             /\ p.wrote[2] = p.args.outdir \o "/ite_" \o p.ts \o ".csv"
             /\ {p.wrote[1], p.wrote[2]} \subseteq DOMAIN fs.files

C4_Witness ==
  \E r \in Runs :
     /\ proc[r].variant = 2
     /\ proc[r].pc = "done"
     /\ SelectSeq(proc[r].trace, LAMBDA s : s \in Range(ClaimedOrder(2))) = ClaimedOrder(2)
     /\ graph_path(proc[r]) \in DOMAIN fs.files

UsageError(p) ==
  \/ p.argv.csv = Absent \/ p.argv.treatment = Absent \/ p.argv.outcome = Absent
  \/ p.variant = 1 /\ p.argv.standardize

\* C5: a command line without --csv, --treatment or --outcome, or with
\* --standardize in the first variant, ends the run in argument parsing with
\* no directory made and no step run; otherwise --outdir defaults to
\* ./outputs and --standardize (second variant only) defaults to off.
C5_ArgumentParsing ==
  \A r \in Runs :
     LET p == proc[r]
     IN p.pc \notin {"idle", "parse"} =>
          IF UsageError(p)
          THEN /\ p.pc = "failed" /\ p.failed_at = "parse" /\ p.exit_code = 2
               /\ p.trace = <<"parse">>
               /\ fs.dirs = {} /\ DOMAIN fs.files = {}
          ELSE /\ p.failed_at # "parse"
               /\ p.args.csv = p.argv.csv
               /\ p.args.treatment = p.argv.treatment
               /\ p.args.outcome = p.argv.outcome
               /\ p.args.outdir = (IF p.argv.outdir = Absent THEN "./outputs" ELSE p.argv.outdir)
               /\ p.args.standardize = (p.variant = 2 /\ p.argv.standardize)

C5_Witness ==
  \E r \in Runs :
     /\ proc[r].variant = 1
     /\ proc[r].argv.standardize
     /\ proc[r].argv.csv # Absent /\ proc[r].argv.treatment # Absent
     /\ proc[r].argv.outcome # Absent
     /\ proc[r].pc = "failed"
     /\ fs.dirs = {}

\* C6: in every successful run the ATE that is printed and written to the
\* report is a finite float, written with exactly six decimal places.
C6_AteFinite ==
  \A r \in Runs :
     proc[r].pc = "done" =>
       /\ IsFinite(proc[r].ate_value)
       /\ Format6(proc[r].ate_value).decimals = 6
       /\ \E i \in 1..Len(proc[r].stdout) :
            /\ proc[r].stdout[i].what = "ATE ="
            /\ proc[r].stdout[i].text = Format6(proc[r].ate_value).text

InputColumn(p, c) ==
  [k \in 1..Len(InputRows(p)) |-> Raw(InputRows(p)[k][IndexOf(InputHeader(p), c)])]

\* the values each column must have: the CSV's under no --standardize, their
\* standard scores under --standardize
ExpectedColumns(p) ==
  [c \in Range(InputHeader(p)) |->
     IF p.args.standardize THEN ScaleColumn(InputColumn(p, c)) ELSE InputColumn(p, c)]

FrameAsExpected(exp, n, X) ==
  /\ Len(X.data) = n
  /\ X.index = [k \in 1..n |-> k - 1]
  /\ \A j \in 1..Len(X.columns) :
       [i \in 1..n |-> X.data[i][j]] = exp[X.columns[j]]

\* C7: under --standardize (second variant only) every column, treatment and
\* outcome included, holds its standard scores (of mean zero) from before the
\* covariates are selected, and rows, column names and column order are those
\* of the CSV; without --standardize the frame holds the values of the CSV;
\* both tunings are given columns of this frame, and the model, the
\* estimation and the refutation the frame itself.
C7_Standardize ==
  \A r \in Runs :
     LET p == proc[r]
         ready == IF p.args.standardize THEN Completed(p, "standardize")
                  ELSE Completed(p, "load")
         n == Len(InputRows(p))
         exp == ExpectedColumns(p)
     IN /\ p.args.standardize => p.variant = 2
        /\ Ran(p, "covariates") => ready
        /\ ready =>
             /\ p.df.columns = InputHeader(p)
             /\ FrameAsExpected(exp, n, p.df)
             /\ p.args.standardize =>
                  \A j \in 1..Len(p.df.columns) :
                     SumSeq([i \in 1..Len(p.df.data) |-> p.df.data[i][j].num]) = 0
             /\ \A k \in 1..Len(p.calls) :
                  IF p.calls[k].fn = "tune_lgbm"
                  THEN /\ p.calls[k].X.index = p.df.index
                       /\ \A j \in 1..Len(p.calls[k].X.columns) :
                            [i \in 1..n |-> p.calls[k].X.data[i][j]]
                              = [i \in 1..n |-> p.df.data[i][IndexOf(p.df.columns, p.calls[k].X.columns[j])]]
                       /\ p.calls[k].y.values
                            = [i \in 1..n |-> p.df.data[i][IndexOf(p.df.columns, p.calls[k].y.name)]]
                  ELSE p.calls[k].X = p.df

C7_Witness ==
  \E r \in Runs :
     /\ proc[r].args.standardize
     /\ proc[r].pc = "done"
     /\ Len(proc[r].calls) = 5
     /\ proc[r].calls[5].fn = "refute_estimate"
     /\ \E i \in 1..Len(proc[r].df.data) :
          proc[r].df.data[i][IndexOf(proc[r].df.columns, "Isoprene")].den2 # 1

\* C8: the covariates are the columns of the dataset without the treatment
\* and the outcome column, in column order, whether the graph names them or
\* not; both tunings get exactly these columns as features, the first the
\* outcome column as target, the second the treatment column.
C8_Covariates ==
  \A r \in Runs :
     LET p == proc[r]
         cov == p.covariates
     IN Completed(p, "covariates") =>
          /\ Range(cov) = Range(p.df.columns) \ {p.args.treatment, p.args.outcome}
          /\ \A i \in 1..Len(cov), j \in 1..Len(cov) :
               i < j => IndexOf(p.df.columns, cov[i]) < IndexOf(p.df.columns, cov[j])
          /\ \A k \in 1..Len(p.calls) :
               p.calls[k].fn = "tune_lgbm" =>
                 /\ p.calls[k].X.columns = cov
                 /\ p.args.treatment \notin Range(p.calls[k].X.columns)
                 /\ p.args.outcome \notin Range(p.calls[k].X.columns)
          /\ Completed(p, "tune_y") => p.calls[1].fn = "tune_lgbm" /\ p.calls[1].y.name = p.args.outcome
          /\ Completed(p, "tune_t") => p.calls[2].fn = "tune_lgbm" /\ p.calls[2].y.name = p.args.treatment

C8_Witness ==
  \E r \in Runs :
     /\ Completed(proc[r], "tune_t")
     /\ proc[r].covariates = <<"Site", "RH">>
     /\ "Site" \notin Range(nodes_label)

\* C9: the graph user_dag_gml() returns (looked at when it has returned and
\* again when the run is done) is the same whatever the variant, the
\* arguments and the data: 10 nodes A B C D E F H I U Y with 10 distinct
\* labels, 20 distinct directed edges between declared nodes, no self-loop,
\* no cycle, no edge out of Y (Isoprene), and U -> Y as the only edge out of U.
C9_Graph ==
  \A r \in Runs :
     proc[r].pc \in {"covariates", "done"} =>
       LET g == proc[r].gml_string
           E == GmlEdgeSet(g)
       IN /\ Cardinality(GmlNodes(g)) = 10
          /\ GmlNodeIds(g) = {"A", "B", "C", "D", "E", "F", "H", "I", "U", "Y"}
          /\ Cardinality({g[i].b : i \in GmlNodes(g)}) = 10
          /\ Cardinality(GmlEdges(g)) = 20
          /\ Cardinality(E) = 20
          /\ \A e \in E : e[1] \in GmlNodeIds(g) /\ e[2] \in GmlNodeIds(g) /\ e[1] # e[2]
          /\ Acyclic(g)
          /\ \E i \in GmlNodes(g) : g[i].a = "Y" /\ g[i].b = "Isoprene"
          /\ {e \in E : e[1] = "Y"} = {}
          /\ {e \in E : e[1] = "U"} = {<<"U", "Y">>}
          /\ Len(g) = 32 /\ g[1].kind = "open" /\ g[32].kind = "close"

C9_Witness ==
  \E r \in Runs :
     /\ proc[r].variant = 1
     /\ proc[r].args.treatment = "Temp"
     /\ proc[r].pc = "covariates"
     /\ Len(proc[r].gml_string) = 32

SameDir(r1, r2) == proc[r1].args.outdir = proc[r2].args.outdir

\* C10 as claimed: two runs that use the same output directory write
\* disjoint sets of file names.
C10_Disjoint ==
  \A r1 \in Runs, r2 \in Runs :
     r1 # r2 /\ SameDir(r1, r2) =>
       Range(proc[r1].wrote) \cap Range(proc[r2].wrote) = {}

\* C10 as amended: two runs write a common file name only when they use the
\* same output directory and carry the same stamp (their save steps fall in
\* the same second), and two such runs do write the same report name and the
\* same table name.
C10_DisjointUnlessSameStamp ==
  \A r1 \in Runs, r2 \in Runs :
     r1 # r2 =>
       /\ Range(proc[r1].wrote) \cap Range(proc[r2].wrote) # {} =>
            SameDir(r1, r2) /\ proc[r1].ts = proc[r2].ts
       /\ (SameDir(r1, r2) /\ proc[r1].ts = proc[r2].ts) =>
            \A k \in 1..2 :
               (Len(proc[r1].wrote) >= k /\ Len(proc[r2].wrote) >= k) =>
                  proc[r1].wrote[k] = proc[r2].wrote[k]

C10_Witness ==
  /\ \A r \in Runs : proc[r].pc = "done"
  /\ SameDir(1, 2)
  /\ proc[1].ts # proc[2].ts
  /\ Range(proc[1].wrote) \cap Range(proc[2].wrote) = {}
  /\ Cardinality(DOMAIN fs.files) = 5

====
